---- MODULE Spec2Model ----
(***************************************************************************)
(* Model of astrbot_plugin_nickname (src/main.py): the file-backed store   *)
(* of member records, the admin commands member / rm_nick / rm_member and  *)
(* the group-message hook that rewrites a message into mentions.           *)
(*                                                                         *)
(* A string is a sequence of Unicode code points, so that str.strip,       *)
(* str.lower, str.find and the `in` test are computed character by         *)
(* character.  Member and group identifiers are opaque and are TLA+        *)
(* strings; "" is the empty identifier.                                    *)
(***************************************************************************)
EXTENDS Integers, Sequences, FiniteSets, TLC

VARIABLES
    members,   \* self._members: the in-memory list of records
    file,      \* members.json
    tmp,       \* members.tmp, the file _save writes before it replaces members.json
    locked,    \* self._lock: whether the lock is held
    waiters,   \* self._lock: the tasks suspended in acquire(), in arrival order
    task       \* the tasks of the event loop: where each stands and what it runs

vars == <<members, file, tmp, locked, waiters, task>>

----------------------------------------------------------------------------
(* Characters and the str methods the plugin uses. *)

NBSP  == 160
ZWSP  == 8203
NL    == 10
SLASH == 47

\* str.isspace for one code point (the code points Python's str.strip removes).
IsSpace(c) ==
    \/ c \in {9, 10, 11, 12, 13, 28, 29, 30, 31, 32, 133, 160, 5760}
    \/ c \in 8192..8202
    \/ c \in {8232, 8233, 8239, 8287, 12288}

SetMin(S) == CHOOSE x \in S : \A y \in S : x <= y
SetMax(S) == CHOOSE x \in S : \A y \in S : x >= y

RECURSIVE join(_)
join(parts) == IF parts = <<>> THEN <<>> ELSE Head(parts) \o join(Tail(parts))

\* The Unicode tables behind str.lower, as ranges <<first, last, step, delta>>:
\* every code point first, first + step, ... up to last has the lower case
\* code point + delta.  (The ASCII capitals are in LowerChar.)
LowerTable ==
  {
    <<192, 214, 1, 32>>, <<216, 222, 1, 32>>, <<256, 302, 2, 1>>,
    <<306, 310, 2, 1>>, <<313, 327, 2, 1>>, <<330, 374, 2, 1>>,
    <<376, 376, 1, -121>>, <<377, 381, 2, 1>>, <<385, 385, 1, 210>>,
    <<386, 388, 2, 1>>, <<390, 390, 1, 206>>, <<391, 391, 1, 1>>,
    <<393, 394, 1, 205>>, <<395, 395, 1, 1>>, <<398, 398, 1, 79>>,
    <<399, 399, 1, 202>>, <<400, 400, 1, 203>>, <<401, 401, 1, 1>>,
    <<403, 403, 1, 205>>, <<404, 404, 1, 207>>, <<406, 406, 1, 211>>,
    <<407, 407, 1, 209>>, <<408, 408, 1, 1>>, <<412, 412, 1, 211>>,
    <<413, 413, 1, 213>>, <<415, 415, 1, 214>>, <<416, 420, 2, 1>>,
    <<422, 422, 1, 218>>, <<423, 423, 1, 1>>, <<425, 425, 1, 218>>,
    <<428, 428, 1, 1>>, <<430, 430, 1, 218>>, <<431, 431, 1, 1>>,
    <<433, 434, 1, 217>>, <<435, 437, 2, 1>>, <<439, 439, 1, 219>>,
    <<440, 440, 1, 1>>, <<444, 444, 1, 1>>, <<452, 452, 1, 2>>,
    <<453, 453, 1, 1>>, <<455, 455, 1, 2>>, <<456, 456, 1, 1>>,
    <<458, 458, 1, 2>>, <<459, 475, 2, 1>>, <<478, 494, 2, 1>>,
    <<497, 497, 1, 2>>, <<498, 500, 2, 1>>, <<502, 502, 1, -97>>,
    <<503, 503, 1, -56>>, <<504, 542, 2, 1>>, <<544, 544, 1, -130>>,
    <<546, 562, 2, 1>>, <<570, 570, 1, 10795>>, <<571, 571, 1, 1>>,
    <<573, 573, 1, -163>>, <<574, 574, 1, 10792>>, <<577, 577, 1, 1>>,
    <<579, 579, 1, -195>>, <<580, 580, 1, 69>>, <<581, 581, 1, 71>>,
    <<582, 590, 2, 1>>, <<880, 882, 2, 1>>, <<886, 886, 1, 1>>,
    <<895, 895, 1, 116>>, <<902, 902, 1, 38>>, <<904, 906, 1, 37>>,
    <<908, 908, 1, 64>>, <<910, 911, 1, 63>>, <<913, 929, 1, 32>>,
    <<931, 939, 1, 32>>, <<975, 975, 1, 8>>, <<984, 1006, 2, 1>>,
    <<1012, 1012, 1, -60>>, <<1015, 1015, 1, 1>>, <<1017, 1017, 1, -7>>,
    <<1018, 1018, 1, 1>>, <<1021, 1023, 1, -130>>, <<1024, 1039, 1, 80>>,
    <<1040, 1071, 1, 32>>, <<1120, 1152, 2, 1>>, <<1162, 1214, 2, 1>>,
    <<1216, 1216, 1, 15>>, <<1217, 1229, 2, 1>>, <<1232, 1326, 2, 1>>,
    <<1329, 1366, 1, 48>>, <<4256, 4293, 1, 7264>>, <<4295, 4295, 1, 7264>>,
    <<4301, 4301, 1, 7264>>, <<5024, 5103, 1, 38864>>, <<5104, 5109, 1, 8>>,
    <<7312, 7354, 1, -3008>>, <<7357, 7359, 1, -3008>>, <<7680, 7828, 2, 1>>,
    <<7838, 7838, 1, -7615>>, <<7840, 7934, 2, 1>>, <<7944, 7951, 1, -8>>,
    <<7960, 7965, 1, -8>>, <<7976, 7983, 1, -8>>, <<7992, 7999, 1, -8>>,
    <<8008, 8013, 1, -8>>, <<8025, 8031, 2, -8>>, <<8040, 8047, 1, -8>>,
    <<8072, 8079, 1, -8>>, <<8088, 8095, 1, -8>>, <<8104, 8111, 1, -8>>,
    <<8120, 8121, 1, -8>>, <<8122, 8123, 1, -74>>, <<8124, 8124, 1, -9>>,
    <<8136, 8139, 1, -86>>, <<8140, 8140, 1, -9>>, <<8152, 8153, 1, -8>>,
    <<8154, 8155, 1, -100>>, <<8168, 8169, 1, -8>>, <<8170, 8171, 1, -112>>,
    <<8172, 8172, 1, -7>>, <<8184, 8185, 1, -128>>, <<8186, 8187, 1, -126>>,
    <<8188, 8188, 1, -9>>, <<8486, 8486, 1, -7517>>,
    <<8490, 8490, 1, -8383>>, <<8491, 8491, 1, -8262>>,
    <<8498, 8498, 1, 28>>, <<8544, 8559, 1, 16>>, <<8579, 8579, 1, 1>>,
    <<9398, 9423, 1, 26>>, <<11264, 11311, 1, 48>>, <<11360, 11360, 1, 1>>,
    <<11362, 11362, 1, -10743>>, <<11363, 11363, 1, -3814>>,
    <<11364, 11364, 1, -10727>>, <<11367, 11371, 2, 1>>,
    <<11373, 11373, 1, -10780>>, <<11374, 11374, 1, -10749>>,
    <<11375, 11375, 1, -10783>>, <<11376, 11376, 1, -10782>>,
    <<11378, 11378, 1, 1>>, <<11381, 11381, 1, 1>>,
    <<11390, 11391, 1, -10815>>, <<11392, 11490, 2, 1>>,
    <<11499, 11501, 2, 1>>, <<11506, 11506, 1, 1>>, <<42560, 42604, 2, 1>>,
    <<42624, 42650, 2, 1>>, <<42786, 42798, 2, 1>>, <<42802, 42862, 2, 1>>,
    <<42873, 42875, 2, 1>>, <<42877, 42877, 1, -35332>>,
    <<42878, 42886, 2, 1>>, <<42891, 42891, 1, 1>>,
    <<42893, 42893, 1, -42280>>, <<42896, 42898, 2, 1>>,
    <<42902, 42920, 2, 1>>, <<42922, 42922, 1, -42308>>,
    <<42923, 42923, 1, -42319>>, <<42924, 42924, 1, -42315>>,
    <<42925, 42925, 1, -42305>>, <<42926, 42926, 1, -42308>>,
    <<42928, 42928, 1, -42258>>, <<42929, 42929, 1, -42282>>,
    <<42930, 42930, 1, -42261>>, <<42931, 42931, 1, 928>>,
    <<42932, 42946, 2, 1>>, <<42948, 42948, 1, -48>>,
    <<42949, 42949, 1, -42307>>, <<42950, 42950, 1, -35384>>,
    <<42951, 42953, 2, 1>>, <<42960, 42960, 1, 1>>, <<42966, 42968, 2, 1>>,
    <<42997, 42997, 1, 1>>, <<65313, 65338, 1, 32>>, <<66560, 66599, 1, 40>>,
    <<66736, 66771, 1, 40>>, <<66928, 66938, 1, 39>>,
    <<66940, 66954, 1, 39>>, <<66956, 66962, 1, 39>>,
    <<66964, 66965, 1, 39>>, <<68736, 68786, 1, 64>>,
    <<71840, 71871, 1, 32>>, <<93760, 93791, 1, 32>>,
    <<125184, 125217, 1, 34>>
  }


\* The code points that are cased and not case-ignorable, as ranges
\* <<first, last, step>>.
CasedTable ==
  {
    <<65, 90, 1>>, <<97, 122, 1>>, <<170, 170, 1>>, <<181, 181, 1>>,
    <<186, 186, 1>>, <<192, 214, 1>>, <<216, 246, 1>>, <<248, 442, 1>>,
    <<444, 447, 1>>, <<452, 659, 1>>, <<661, 687, 1>>, <<880, 883, 1>>,
    <<886, 887, 1>>, <<891, 893, 1>>, <<895, 895, 1>>, <<902, 904, 2>>,
    <<905, 906, 1>>, <<908, 910, 2>>, <<911, 929, 1>>, <<931, 1013, 1>>,
    <<1015, 1153, 1>>, <<1162, 1327, 1>>, <<1329, 1366, 1>>,
    <<1376, 1416, 1>>, <<4256, 4293, 1>>, <<4295, 4295, 1>>,
    <<4301, 4301, 1>>, <<4304, 4346, 1>>, <<4349, 4351, 1>>,
    <<5024, 5109, 1>>, <<5112, 5117, 1>>, <<7296, 7304, 1>>,
    <<7312, 7354, 1>>, <<7357, 7359, 1>>, <<7424, 7467, 1>>,
    <<7531, 7543, 1>>, <<7545, 7578, 1>>, <<7680, 7957, 1>>,
    <<7960, 7965, 1>>, <<7968, 8005, 1>>, <<8008, 8013, 1>>,
    <<8016, 8023, 1>>, <<8025, 8031, 2>>, <<8032, 8061, 1>>,
    <<8064, 8116, 1>>, <<8118, 8124, 1>>, <<8126, 8126, 1>>,
    <<8130, 8132, 1>>, <<8134, 8140, 1>>, <<8144, 8147, 1>>,
    <<8150, 8155, 1>>, <<8160, 8172, 1>>, <<8178, 8180, 1>>,
    <<8182, 8188, 1>>, <<8450, 8450, 1>>, <<8455, 8455, 1>>,
    <<8458, 8467, 1>>, <<8469, 8469, 1>>, <<8473, 8477, 1>>,
    <<8484, 8490, 2>>, <<8491, 8493, 1>>, <<8495, 8500, 1>>,
    <<8505, 8505, 1>>, <<8508, 8511, 1>>, <<8517, 8521, 1>>,
    <<8526, 8526, 1>>, <<8544, 8575, 1>>, <<8579, 8580, 1>>,
    <<9398, 9449, 1>>, <<11264, 11387, 1>>, <<11390, 11492, 1>>,
    <<11499, 11502, 1>>, <<11506, 11507, 1>>, <<11520, 11557, 1>>,
    <<11559, 11559, 1>>, <<11565, 11565, 1>>, <<42560, 42605, 1>>,
    <<42624, 42651, 1>>, <<42786, 42863, 1>>, <<42865, 42887, 1>>,
    <<42891, 42894, 1>>, <<42896, 42954, 1>>, <<42960, 42961, 1>>,
    <<42963, 42965, 2>>, <<42966, 42969, 1>>, <<42997, 42998, 1>>,
    <<43002, 43002, 1>>, <<43824, 43866, 1>>, <<43872, 43880, 1>>,
    <<43888, 43967, 1>>, <<64256, 64262, 1>>, <<64275, 64279, 1>>,
    <<65313, 65338, 1>>, <<65345, 65370, 1>>, <<66560, 66639, 1>>,
    <<66736, 66771, 1>>, <<66776, 66811, 1>>, <<66928, 66938, 1>>,
    <<66940, 66954, 1>>, <<66956, 66962, 1>>, <<66964, 66965, 1>>,
    <<66967, 66977, 1>>, <<66979, 66993, 1>>, <<66995, 67001, 1>>,
    <<67003, 67004, 1>>, <<68736, 68786, 1>>, <<68800, 68850, 1>>,
    <<71840, 71903, 1>>, <<93760, 93823, 1>>, <<119808, 119892, 1>>,
    <<119894, 119964, 1>>, <<119966, 119967, 1>>, <<119970, 119970, 1>>,
    <<119973, 119974, 1>>, <<119977, 119980, 1>>, <<119982, 119993, 1>>,
    <<119995, 119997, 2>>, <<119998, 120003, 1>>, <<120005, 120069, 1>>,
    <<120071, 120074, 1>>, <<120077, 120084, 1>>, <<120086, 120092, 1>>,
    <<120094, 120121, 1>>, <<120123, 120126, 1>>, <<120128, 120132, 1>>,
    <<120134, 120134, 1>>, <<120138, 120144, 1>>, <<120146, 120485, 1>>,
    <<120488, 120512, 1>>, <<120514, 120538, 1>>, <<120540, 120570, 1>>,
    <<120572, 120596, 1>>, <<120598, 120628, 1>>, <<120630, 120654, 1>>,
    <<120656, 120686, 1>>, <<120688, 120712, 1>>, <<120714, 120744, 1>>,
    <<120746, 120770, 1>>, <<120772, 120779, 1>>, <<122624, 122633, 1>>,
    <<122635, 122654, 1>>, <<125184, 125251, 1>>, <<127280, 127305, 1>>,
    <<127312, 127337, 1>>, <<127344, 127369, 1>>
  }


\* The case-ignorable code points, as ranges <<first, last, step>>.
CaseIgnorableTable ==
  {
    <<39, 39, 1>>, <<46, 46, 1>>, <<58, 58, 1>>, <<94, 96, 2>>,
    <<168, 168, 1>>, <<173, 175, 2>>, <<180, 180, 1>>, <<183, 184, 1>>,
    <<688, 879, 1>>, <<884, 885, 1>>, <<890, 890, 1>>, <<900, 901, 1>>,
    <<903, 903, 1>>, <<1155, 1161, 1>>, <<1369, 1369, 1>>, <<1375, 1375, 1>>,
    <<1425, 1469, 1>>, <<1471, 1473, 2>>, <<1474, 1476, 2>>,
    <<1477, 1479, 2>>, <<1524, 1524, 1>>, <<1536, 1541, 1>>,
    <<1552, 1562, 1>>, <<1564, 1564, 1>>, <<1600, 1600, 1>>,
    <<1611, 1631, 1>>, <<1648, 1648, 1>>, <<1750, 1757, 1>>,
    <<1759, 1768, 1>>, <<1770, 1773, 1>>, <<1807, 1809, 2>>,
    <<1840, 1866, 1>>, <<1958, 1968, 1>>, <<2027, 2037, 1>>,
    <<2042, 2042, 1>>, <<2045, 2045, 1>>, <<2070, 2093, 1>>,
    <<2137, 2139, 1>>, <<2184, 2184, 1>>, <<2192, 2193, 1>>,
    <<2200, 2207, 1>>, <<2249, 2306, 1>>, <<2362, 2364, 2>>,
    <<2369, 2376, 1>>, <<2381, 2381, 1>>, <<2385, 2391, 1>>,
    <<2402, 2403, 1>>, <<2417, 2417, 1>>, <<2433, 2433, 1>>,
    <<2492, 2492, 1>>, <<2497, 2500, 1>>, <<2509, 2509, 1>>,
    <<2530, 2531, 1>>, <<2558, 2558, 1>>, <<2561, 2562, 1>>,
    <<2620, 2620, 1>>, <<2625, 2626, 1>>, <<2631, 2632, 1>>,
    <<2635, 2637, 1>>, <<2641, 2641, 1>>, <<2672, 2673, 1>>,
    <<2677, 2677, 1>>, <<2689, 2690, 1>>, <<2748, 2748, 1>>,
    <<2753, 2757, 1>>, <<2759, 2760, 1>>, <<2765, 2765, 1>>,
    <<2786, 2787, 1>>, <<2810, 2815, 1>>, <<2817, 2817, 1>>,
    <<2876, 2876, 1>>, <<2879, 2881, 2>>, <<2882, 2884, 1>>,
    <<2893, 2893, 1>>, <<2901, 2902, 1>>, <<2914, 2915, 1>>,
    <<2946, 2946, 1>>, <<3008, 3008, 1>>, <<3021, 3021, 1>>,
    <<3072, 3072, 1>>, <<3076, 3076, 1>>, <<3132, 3134, 2>>,
    <<3135, 3136, 1>>, <<3142, 3144, 1>>, <<3146, 3149, 1>>,
    <<3157, 3158, 1>>, <<3170, 3171, 1>>, <<3201, 3201, 1>>,
    <<3260, 3260, 1>>, <<3263, 3263, 1>>, <<3270, 3270, 1>>,
    <<3276, 3277, 1>>, <<3298, 3299, 1>>, <<3328, 3329, 1>>,
    <<3387, 3388, 1>>, <<3393, 3396, 1>>, <<3405, 3405, 1>>,
    <<3426, 3427, 1>>, <<3457, 3457, 1>>, <<3530, 3530, 1>>,
    <<3538, 3540, 1>>, <<3542, 3542, 1>>, <<3633, 3633, 1>>,
    <<3636, 3642, 1>>, <<3654, 3662, 1>>, <<3761, 3761, 1>>,
    <<3764, 3772, 1>>, <<3782, 3784, 2>>, <<3785, 3789, 1>>,
    <<3864, 3865, 1>>, <<3893, 3897, 2>>, <<3953, 3966, 1>>,
    <<3968, 3972, 1>>, <<3974, 3975, 1>>, <<3981, 3991, 1>>,
    <<3993, 4028, 1>>, <<4038, 4038, 1>>, <<4141, 4144, 1>>,
    <<4146, 4151, 1>>, <<4153, 4154, 1>>, <<4157, 4158, 1>>,
    <<4184, 4185, 1>>, <<4190, 4192, 1>>, <<4209, 4212, 1>>,
    <<4226, 4226, 1>>, <<4229, 4230, 1>>, <<4237, 4237, 1>>,
    <<4253, 4253, 1>>, <<4348, 4348, 1>>, <<4957, 4959, 1>>,
    <<5906, 5908, 1>>, <<5938, 5939, 1>>, <<5970, 5971, 1>>,
    <<6002, 6003, 1>>, <<6068, 6069, 1>>, <<6071, 6077, 1>>,
    <<6086, 6086, 1>>, <<6089, 6099, 1>>, <<6103, 6103, 1>>,
    <<6109, 6109, 1>>, <<6155, 6159, 1>>, <<6211, 6211, 1>>,
    <<6277, 6278, 1>>, <<6313, 6313, 1>>, <<6432, 6434, 1>>,
    <<6439, 6440, 1>>, <<6450, 6450, 1>>, <<6457, 6459, 1>>,
    <<6679, 6680, 1>>, <<6683, 6683, 1>>, <<6742, 6744, 2>>,
    <<6745, 6750, 1>>, <<6752, 6754, 2>>, <<6757, 6764, 1>>,
    <<6771, 6780, 1>>, <<6783, 6783, 1>>, <<6823, 6823, 1>>,
    <<6832, 6862, 1>>, <<6912, 6915, 1>>, <<6964, 6966, 2>>,
    <<6967, 6970, 1>>, <<6972, 6972, 1>>, <<6978, 6978, 1>>,
    <<7019, 7027, 1>>, <<7040, 7041, 1>>, <<7074, 7077, 1>>,
    <<7080, 7081, 1>>, <<7083, 7085, 1>>, <<7142, 7144, 2>>,
    <<7145, 7145, 1>>, <<7149, 7151, 2>>, <<7152, 7153, 1>>,
    <<7212, 7219, 1>>, <<7222, 7223, 1>>, <<7288, 7293, 1>>,
    <<7376, 7378, 1>>, <<7380, 7392, 1>>, <<7394, 7400, 1>>,
    <<7405, 7405, 1>>, <<7412, 7412, 1>>, <<7416, 7417, 1>>,
    <<7468, 7530, 1>>, <<7544, 7544, 1>>, <<7579, 7679, 1>>,
    <<8125, 8127, 2>>, <<8128, 8129, 1>>, <<8141, 8143, 1>>,
    <<8157, 8159, 1>>, <<8173, 8175, 1>>, <<8189, 8190, 1>>,
    <<8203, 8207, 1>>, <<8216, 8217, 1>>, <<8228, 8228, 1>>,
    <<8231, 8231, 1>>, <<8234, 8238, 1>>, <<8288, 8292, 1>>,
    <<8294, 8303, 1>>, <<8305, 8305, 1>>, <<8319, 8319, 1>>,
    <<8336, 8348, 1>>, <<8400, 8432, 1>>, <<11388, 11389, 1>>,
    <<11503, 11505, 1>>, <<11631, 11631, 1>>, <<11647, 11647, 1>>,
    <<11744, 11775, 1>>, <<11823, 11823, 1>>, <<12293, 12293, 1>>,
    <<12330, 12333, 1>>, <<12337, 12341, 1>>, <<12347, 12347, 1>>,
    <<12441, 12446, 1>>, <<12540, 12542, 1>>, <<40981, 40981, 1>>,
    <<42232, 42237, 1>>, <<42508, 42508, 1>>, <<42607, 42610, 1>>,
    <<42612, 42621, 1>>, <<42623, 42623, 1>>, <<42652, 42655, 1>>,
    <<42736, 42737, 1>>, <<42752, 42785, 1>>, <<42864, 42864, 1>>,
    <<42888, 42890, 1>>, <<42994, 42996, 1>>, <<43000, 43001, 1>>,
    <<43010, 43010, 1>>, <<43014, 43014, 1>>, <<43019, 43019, 1>>,
    <<43045, 43046, 1>>, <<43052, 43052, 1>>, <<43204, 43205, 1>>,
    <<43232, 43249, 1>>, <<43263, 43263, 1>>, <<43302, 43309, 1>>,
    <<43335, 43345, 1>>, <<43392, 43394, 1>>, <<43443, 43443, 1>>,
    <<43446, 43449, 1>>, <<43452, 43453, 1>>, <<43471, 43471, 1>>,
    <<43493, 43494, 1>>, <<43561, 43566, 1>>, <<43569, 43570, 1>>,
    <<43573, 43574, 1>>, <<43587, 43587, 1>>, <<43596, 43596, 1>>,
    <<43632, 43632, 1>>, <<43644, 43644, 1>>, <<43696, 43698, 2>>,
    <<43699, 43700, 1>>, <<43703, 43704, 1>>, <<43710, 43711, 1>>,
    <<43713, 43713, 1>>, <<43741, 43741, 1>>, <<43756, 43757, 1>>,
    <<43763, 43764, 1>>, <<43766, 43766, 1>>, <<43867, 43871, 1>>,
    <<43881, 43883, 1>>, <<44005, 44005, 1>>, <<44008, 44008, 1>>,
    <<44013, 44013, 1>>, <<64286, 64286, 1>>, <<64434, 64450, 1>>,
    <<65024, 65039, 1>>, <<65043, 65043, 1>>, <<65056, 65071, 1>>,
    <<65106, 65106, 1>>, <<65109, 65109, 1>>, <<65279, 65279, 1>>,
    <<65287, 65287, 1>>, <<65294, 65294, 1>>, <<65306, 65306, 1>>,
    <<65342, 65344, 2>>, <<65392, 65392, 1>>, <<65438, 65439, 1>>,
    <<65507, 65507, 1>>, <<65529, 65531, 1>>, <<66045, 66045, 1>>,
    <<66272, 66272, 1>>, <<66422, 66426, 1>>, <<67456, 67461, 1>>,
    <<67463, 67504, 1>>, <<67506, 67514, 1>>, <<68097, 68099, 1>>,
    <<68101, 68102, 1>>, <<68108, 68111, 1>>, <<68152, 68154, 1>>,
    <<68159, 68159, 1>>, <<68325, 68326, 1>>, <<68900, 68903, 1>>,
    <<69291, 69292, 1>>, <<69446, 69456, 1>>, <<69506, 69509, 1>>,
    <<69633, 69633, 1>>, <<69688, 69702, 1>>, <<69744, 69744, 1>>,
    <<69747, 69748, 1>>, <<69759, 69761, 1>>, <<69811, 69814, 1>>,
    <<69817, 69818, 1>>, <<69821, 69821, 1>>, <<69826, 69826, 1>>,
    <<69837, 69837, 1>>, <<69888, 69890, 1>>, <<69927, 69931, 1>>,
    <<69933, 69940, 1>>, <<70003, 70003, 1>>, <<70016, 70017, 1>>,
    <<70070, 70078, 1>>, <<70089, 70092, 1>>, <<70095, 70095, 1>>,
    <<70191, 70193, 1>>, <<70196, 70198, 2>>, <<70199, 70199, 1>>,
    <<70206, 70206, 1>>, <<70367, 70367, 1>>, <<70371, 70378, 1>>,
    <<70400, 70401, 1>>, <<70459, 70460, 1>>, <<70464, 70464, 1>>,
    <<70502, 70508, 1>>, <<70512, 70516, 1>>, <<70712, 70719, 1>>,
    <<70722, 70724, 1>>, <<70726, 70726, 1>>, <<70750, 70750, 1>>,
    <<70835, 70840, 1>>, <<70842, 70842, 1>>, <<70847, 70848, 1>>,
    <<70850, 70851, 1>>, <<71090, 71093, 1>>, <<71100, 71101, 1>>,
    <<71103, 71104, 1>>, <<71132, 71133, 1>>, <<71219, 71226, 1>>,
    <<71229, 71231, 2>>, <<71232, 71232, 1>>, <<71339, 71341, 2>>,
    <<71344, 71349, 1>>, <<71351, 71351, 1>>, <<71453, 71455, 1>>,
    <<71458, 71461, 1>>, <<71463, 71467, 1>>, <<71727, 71735, 1>>,
    <<71737, 71738, 1>>, <<71995, 71996, 1>>, <<71998, 71998, 1>>,
    <<72003, 72003, 1>>, <<72148, 72151, 1>>, <<72154, 72155, 1>>,
    <<72160, 72160, 1>>, <<72193, 72202, 1>>, <<72243, 72248, 1>>,
    <<72251, 72254, 1>>, <<72263, 72263, 1>>, <<72273, 72278, 1>>,
    <<72281, 72283, 1>>, <<72330, 72342, 1>>, <<72344, 72345, 1>>,
    <<72752, 72758, 1>>, <<72760, 72765, 1>>, <<72767, 72767, 1>>,
    <<72850, 72871, 1>>, <<72874, 72880, 1>>, <<72882, 72883, 1>>,
    <<72885, 72886, 1>>, <<73009, 73014, 1>>, <<73018, 73020, 2>>,
    <<73021, 73023, 2>>, <<73024, 73029, 1>>, <<73031, 73031, 1>>,
    <<73104, 73105, 1>>, <<73109, 73111, 2>>, <<73459, 73460, 1>>,
    <<78896, 78904, 1>>, <<92912, 92916, 1>>, <<92976, 92982, 1>>,
    <<92992, 92995, 1>>, <<94031, 94031, 1>>, <<94095, 94111, 1>>,
    <<94176, 94177, 1>>, <<94179, 94180, 1>>, <<110576, 110579, 1>>,
    <<110581, 110587, 1>>, <<110589, 110590, 1>>, <<113821, 113822, 1>>,
    <<113824, 113827, 1>>, <<118528, 118573, 1>>, <<118576, 118598, 1>>,
    <<119143, 119145, 1>>, <<119155, 119170, 1>>, <<119173, 119179, 1>>,
    <<119210, 119213, 1>>, <<119362, 119364, 1>>, <<121344, 121398, 1>>,
    <<121403, 121452, 1>>, <<121461, 121461, 1>>, <<121476, 121476, 1>>,
    <<121499, 121503, 1>>, <<121505, 121519, 1>>, <<122880, 122886, 1>>,
    <<122888, 122904, 1>>, <<122907, 122913, 1>>, <<122915, 122916, 1>>,
    <<122918, 122922, 1>>, <<123184, 123197, 1>>, <<123566, 123566, 1>>,
    <<123628, 123631, 1>>, <<125136, 125142, 1>>, <<125252, 125259, 1>>,
    <<127995, 127999, 1>>, <<917505, 917505, 1>>, <<917536, 917631, 1>>,
    <<917760, 917999, 1>>
  }

InTable(c, table) ==
    \E r \in table : r[1] <= c /\ c <= r[2] /\ (c - r[1]) % r[3] = 0

IsCaseIgnorable(c) == InTable(c, CaseIgnorableTable)

\* asked only of code points that are not case-ignorable
IsCased(c) == InTable(c, CasedTable)

\* str.lower on one code point: the code points it becomes.  U+0130 becomes
\* two code points; every other code point becomes one.
LowerChar(c) ==
    IF c < 128 THEN (IF c \in 65..90 THEN <<c + 32>> ELSE <<c>>)
    ELSE IF c = 304 THEN <<105, 775>>
    ELSE LET rows == {r \in LowerTable :
                        r[1] <= c /\ c <= r[2] /\ (c - r[1]) % r[3] = 0}
         IN  IF rows = {} THEN <<c>> ELSE <<c + (CHOOSE r \in rows : TRUE)[4]>>

\* whether the capital sigma at s[i] ends a word: the nearest code point
\* before it that is not case-ignorable is cased, and the nearest one after
\* it, if there is one, is not.
final_sigma(s, i) ==
    LET before == {j \in 1..(i - 1) : ~IsCaseIgnorable(s[j])}
        after  == {j \in (i + 1)..Len(s) : ~IsCaseIgnorable(s[j])}
    IN  /\ before # {}
        /\ IsCased(s[SetMax(before)])
        /\ after = {} \/ ~IsCased(s[SetMin(after)])

\* str.lower: each code point lowered, the capital sigma (U+03A3) to the
\* final sigma (U+03C2) at the end of a word and to U+03C3 elsewhere.
lower(s) ==
    join([i \in 1..Len(s) |->
            IF s[i] = 931
            THEN (IF final_sigma(s, i) THEN <<962>> ELSE <<963>>)
            ELSE LowerChar(s[i])])

RECURSIVE lstrip(_)
lstrip(s) == IF s # <<>> /\ IsSpace(Head(s)) THEN lstrip(Tail(s)) ELSE s

RECURSIVE rstrip(_)
rstrip(s) ==
    IF s # <<>> /\ IsSpace(s[Len(s)]) THEN rstrip(SubSeq(s, 1, Len(s) - 1)) ELSE s

strip(s) == rstrip(lstrip(s))

_norm_str(s) == strip(s)

\* s.find(sub): the smallest 0-based index at which sub occurs in s, or -1.
find(s, sub) ==
    LET hits == {i \in 0..(Len(s) - Len(sub)) : SubSeq(s, i + 1, i + Len(sub)) = sub}
    IN  IF hits = {} THEN -1 ELSE SetMin(hits)

\* sub in s
contains(s, sub) == find(s, sub) # -1

\* a variant of startswith that finds no prefix
startswith_never(s, prefix) == FALSE

\* s.startswith(prefix)
startswith(s, prefix) ==
    Len(prefix) <= Len(s) /\ SubSeq(s, 1, Len(prefix)) = prefix

----------------------------------------------------------------------------
(* Message segments (astrbot.api.message_components). *)

At(sid)     == [type |-> "At", qq |-> sid]
Plain(text) == [type |-> "Plain", text |-> text]

\* "[CQ:at," as code points
CQ_AT_OPEN == <<91, 67, 81, 58, 97, 116, 44>>
RBRACKET   == 93

\* _AT_CQ.sub("", raw): delete, left to right, every match of
\* \[CQ:at,[^\]]+\] : the opener, one or more characters other than "]", and
\* the first "]" after them.
RECURSIVE _AT_CQ_sub(_)
_AT_CQ_sub(raw) ==
    IF raw = <<>> THEN <<>>
    ELSE LET n      == Len(CQ_AT_OPEN)
             closes == {j \in (n + 1)..Len(raw) : raw[j] = RBRACKET}
             close  == IF closes = {} THEN 0 ELSE SetMin(closes)
         IN  IF startswith(raw, CQ_AT_OPEN) /\ close > n + 1
             THEN _AT_CQ_sub(SubSeq(raw, close + 1, Len(raw)))
             ELSE <<Head(raw)>> \o _AT_CQ_sub(Tail(raw))

RECURSIVE PlainParts(_)
PlainParts(segs) ==
    IF segs = <<>> THEN <<>>
    ELSE IF Head(segs).type = "Plain"
         THEN <<Head(segs).text>> \o PlainParts(Tail(segs))
         ELSE PlainParts(Tail(segs))

\* _strip_at(event): the Plain segments joined and stripped; when the event has
\* no Plain segment, message_str with the CQ mention markup removed.
_strip_at(event) ==
    LET parts == PlainParts(event.message)
    IN  IF parts # <<>> THEN strip(join(parts))
        ELSE strip(_AT_CQ_sub(event.message_str))

\* _first_at_sid(event): the qq of the first At segment, "" for None.
RECURSIVE _first_at_sid(_)
_first_at_sid(segs) ==
    IF segs = <<>> THEN ""
    ELSE IF Head(segs).type = "At" THEN Head(segs).qq
         ELSE _first_at_sid(Tail(segs))

----------------------------------------------------------------------------
(* The store: records {"nickname": [...], "sid": ..., "group_id": ...}. *)

\* members.json: absent, or holding the JSON document of a list of records,
\* or holding a text that json.loads rejects (doc: the document the text was
\* cut from)
Missing   == [kind |-> "missing", doc |-> <<>>]
Json(doc) == [kind |-> "json", doc |-> doc]
Corrupt(doc) == [kind |-> "corrupt", doc |-> doc]

Rec(nicks, sid, gid) == [nickname |-> nicks, sid |-> sid, group_id |-> gid]

\* _load: no file gives the empty list, a file that cannot be read or parsed
\* gives the empty list (except Exception), otherwise the parsed document.
LoadResult(f) == IF f.kind = "json" THEN f.doc ELSE <<>>

\* a variant of _find_by_sid_group that compares group_id with the sid
_find_by_sid_group_wrong_key(ms, sid, gid) ==
    LET hits == {i \in 1..Len(ms) : ms[i].sid = sid /\ ms[i].group_id = sid}
    IN  IF hits = {} THEN 0 ELSE SetMin(hits)

\* _find_by_sid_group: index of the first record of (sid, group_id), 0 for None.
_find_by_sid_group(ms, sid, gid) ==
    LET hits == {i \in 1..Len(ms) : ms[i].sid = sid /\ ms[i].group_id = gid}
    IN  IF hits = {} THEN 0 ELSE SetMin(hits)

\* any(nick == _norm_str(x) for x in rec["nickname"])
HasNick(rec, nick) ==
    \E k \in 1..Len(rec.nickname) : _norm_str(rec.nickname[k]) = nick

\* _find_all_by_nickname(nick, group_id): the indexes of the records found.
_find_all_by_nickname(ms, nick, gid) ==
    {i \in 1..Len(ms) : ms[i].group_id = gid /\ HasNick(ms[i], nick)}

----------------------------------------------------------------------------
(* Replies of the command handlers (event.plain_result). *)

NoReply               == [msg |-> "none"]
R_GROUP_ONLY          == [msg |-> "group_only"]      \* line 122: group chat only
R_NEED_AT             == [msg |-> "need_at"]         \* line 127: an @ is needed
R_BAD_NICK            == [msg |-> "bad_nickname"]    \* line 132: invalid nickname
R_NOT_FOUND           == [msg |-> "not_found"]       \* lines 172, 201: not found
R_RECORDED(nick, sid) == [msg |-> "recorded", nickname |-> nick, sid |-> sid]
R_NICK_REMOVED(nick, touched) ==
    [msg |-> "nick_removed", nickname |-> nick, count |-> touched]
\* the handler ended with the exception of _save instead of a reply
Raised == [msg |-> "raised"]
R_MEMBER_REMOVED(removed) == [msg |-> "member_removed", count |-> removed]

----------------------------------------------------------------------------
(* The command bodies, from the return of _load to the call of _save. *)

\* a variant of the upsert that appends without looking for the nickname
upsert_always_appends(ms, sid, gid, nickname) ==
    LET i == _find_by_sid_group(ms, sid, gid)
    IN  IF i = 0 THEN Append(ms, Rec(<<nickname>>, sid, gid))
        ELSE [ms EXCEPT ![i].nickname = Append(@, nickname)]

\* cmd_member, the upsert: a new record at the end of the list, or the
\* nickname appended to the record found unless the record holds it already.
upsert(ms, sid, gid, nickname) ==
    LET i == _find_by_sid_group(ms, sid, gid)
    IN  IF i = 0 THEN Append(ms, Rec(<<nickname>>, sid, gid))
        ELSE IF \A k \in 1..Len(ms[i].nickname) :
                    _norm_str(ms[i].nickname[k]) # nickname
             THEN [ms EXCEPT ![i].nickname = Append(@, nickname)]
             ELSE ms

\* a variant of cmd_member that upserts before it validates the nickname
cmd_member_upserts_first(ms, event, arg) ==
    LET gid      == event.group_id
        sid      == _first_at_sid(event.message)
        nickname == _norm_str(arg)
    IN  IF gid = "" THEN [members |-> ms, save |-> FALSE, reply |-> R_GROUP_ONLY]
        ELSE IF sid = "" THEN [members |-> ms, save |-> FALSE, reply |-> R_NEED_AT]
        ELSE IF nickname = <<>>
             THEN [members |-> upsert(ms, sid, gid, nickname), save |-> FALSE,
                   reply |-> R_BAD_NICK]
        ELSE [members |-> upsert(ms, sid, gid, nickname), save |-> TRUE,
              reply |-> R_RECORDED(nickname, sid)]

\* cmd_member after _load: the list to keep, whether _save runs, the reply.
cmd_member(ms, event, arg) ==
    LET gid      == event.group_id
        sid      == _first_at_sid(event.message)
        nickname == _norm_str(arg)
    IN  IF gid = "" THEN [members |-> ms, save |-> FALSE, reply |-> R_GROUP_ONLY]
        ELSE IF sid = "" THEN [members |-> ms, save |-> FALSE, reply |-> R_NEED_AT]
        ELSE IF nickname = <<>>
             THEN [members |-> ms, save |-> FALSE, reply |-> R_BAD_NICK]
        ELSE [members |-> upsert(ms, sid, gid, nickname), save |-> TRUE,
              reply |-> R_RECORDED(nickname, sid)]

\* [x for x in nicks if _norm_str(x) != nickname]
new_nicks(nicks, nickname) == SelectSeq(nicks, LAMBDA x : _norm_str(x) # nickname)

\* cmd_rm_nick: the records whose list the loop replaces
touched_by(ms, gid, nickname) ==
    {i \in _find_all_by_nickname(ms, nickname, gid) :
        Len(new_nicks(ms[i].nickname, nickname)) # Len(ms[i].nickname)}

\* a variant of the rm_nick loop that drops a record left without nicknames
remove_nick_drops_empty(ms, gid, nickname) ==
    SelectSeq([i \in 1..Len(ms) |->
                  IF i \in touched_by(ms, gid, nickname)
                  THEN [ms[i] EXCEPT !.nickname = new_nicks(@, nickname)]
                  ELSE ms[i]],
              LAMBDA rec : rec.nickname # <<>>)

remove_nick(ms, gid, nickname) ==
    [i \in 1..Len(ms) |->
        IF i \in touched_by(ms, gid, nickname)
        THEN [ms[i] EXCEPT !.nickname = new_nicks(@, nickname)]
        ELSE ms[i]]

cmd_rm_nick(ms, event, arg) ==
    LET gid      == event.group_id
        nickname == _norm_str(arg)
        touched  == Cardinality(touched_by(ms, gid, nickname))
    IN  IF gid = "" THEN [members |-> ms, save |-> FALSE, reply |-> R_GROUP_ONLY]
        ELSE IF touched # 0
             THEN [members |-> remove_nick(ms, gid, nickname), save |-> TRUE,
                   reply |-> R_NICK_REMOVED(nickname, touched)]
        ELSE [members |-> ms, save |-> FALSE, reply |-> R_NOT_FOUND]

\* a variant of the rm_member filter without the group test
remove_members_any_group(ms, gid, nickname) ==
    SelectSeq(ms, LAMBDA rec : ~HasNick(rec, nickname))

\* cmd_rm_member: the list comprehension that drops the matching records
remove_members(ms, gid, nickname) ==
    SelectSeq(ms, LAMBDA rec : ~(rec.group_id = gid /\ HasNick(rec, nickname)))

cmd_rm_member(ms, event, arg) ==
    LET gid      == event.group_id
        nickname == _norm_str(arg)
        kept     == remove_members(ms, gid, nickname)
        removed  == Len(ms) - Len(kept)
    IN  IF gid = "" THEN [members |-> ms, save |-> FALSE, reply |-> R_GROUP_ONLY]
        ELSE IF removed # 0
             THEN [members |-> kept, save |-> TRUE,
                   reply |-> R_MEMBER_REMOVED(removed)]
        ELSE [members |-> kept, save |-> FALSE, reply |-> R_NOT_FOUND]

----------------------------------------------------------------------------
(* The message hook: lookup and rewriting. *)

\* the two trigger phrases, U+90FD U+6765 U+5EB7 and U+90FD U+6765 U+770B
triggers == << <<37117, 26469, 24247>>, <<37117, 26469, 30475>> >>

\* any(trigger in msg for trigger in triggers)
has_trigger(msg) == \E t \in 1..Len(triggers) : contains(msg, triggers[t])

\* a variant of the group test that skips no record
other_group_never(rec, gid) == FALSE

\* rec.get("group_id") != gid: the record is skipped
other_group(rec, gid) == rec.group_id # gid

\* a variant of the broadcast loop without the test of the sid
RECURSIVE broadcast_chain_any_sid(_, _)
broadcast_chain_any_sid(ms, gid) ==
    IF ms = <<>> THEN <<>>
    ELSE LET rec  == Head(ms)
             rest == broadcast_chain_any_sid(Tail(ms), gid)
         IN  IF other_group(rec, gid) THEN rest
             ELSE <<At(rec.sid), Plain(<<NBSP>>)>> \o rest

\* The broadcast loop: At and NBSP for every record of the group with a sid.
RECURSIVE broadcast_chain(_, _)
broadcast_chain(ms, gid) ==
    IF ms = <<>> THEN <<>>
    ELSE LET rec  == Head(ms)
             rest == broadcast_chain(Tail(ms), gid)
         IN  IF other_group(rec, gid) \/ rec.sid = "" THEN rest
             ELSE <<At(rec.sid), Plain(<<NBSP>>)>> \o rest

\* first_pos[sid] = idx when sid is new or idx is smaller; first_pos is a dict,
\* kept here as its items in insertion order.
dict_set_min(d, sid, idx) ==
    LET hits == {i \in 1..Len(d) : d[i].sid = sid}
    IN  IF hits = {} THEN Append(d, [sid |-> sid, idx |-> idx])
        ELSE LET i == SetMin(hits)
             IN  IF idx < d[i].idx THEN [d EXCEPT ![i].idx = idx] ELSE d

\* a variant of the nickname loop without the test idx != -1
RECURSIVE scan_nicks_keeps_misses(_, _, _, _)
scan_nicks_keeps_misses(d, sid, nicks, msg) ==
    IF nicks = <<>> THEN d
    ELSE LET nick == _norm_str(Head(nicks))
             d2   == IF nick = <<>> THEN d
                     ELSE dict_set_min(d, sid, find(msg, nick))
         IN  scan_nicks_keeps_misses(d2, sid, Tail(nicks), msg)

\* for raw in rec["nickname"]: ...
RECURSIVE scan_nicks(_, _, _, _)
scan_nicks(d, sid, nicks, msg) ==
    IF nicks = <<>> THEN d
    ELSE LET nick == _norm_str(Head(nicks))
             idx  == find(msg, nick)
             d2   == IF nick = <<>> \/ idx = -1 THEN d
                     ELSE dict_set_min(d, sid, idx)
         IN  scan_nicks(d2, sid, Tail(nicks), msg)

\* for rec in self._members: ... (the collection of first_pos)
RECURSIVE scan_records(_, _, _, _)
scan_records(d, ms, gid, msg) ==
    IF ms = <<>> THEN d
    ELSE LET rec == Head(ms)
             d2  == IF other_group(rec, gid) \/ rec.sid = "" THEN d
                    ELSE scan_nicks(d, rec.sid, rec.nickname, msg)
         IN  scan_records(d2, Tail(ms), gid, msg)

first_pos(ms, gid, msg) == scan_records(<<>>, ms, gid, msg)

\* sorted(items, key=idx): stable, ascending.
RECURSIVE sorted_by_idx(_)
sorted_by_idx(d) ==
    IF d = <<>> THEN <<>>
    ELSE LET front == sorted_by_idx(SubSeq(d, 1, Len(d) - 1))
             x     == d[Len(d)]
             k     == Cardinality({i \in 1..Len(front) : front[i].idx <= x.idx})
         IN  SubSeq(front, 1, k) \o <<x>> \o SubSeq(front, k + 1, Len(front))

order_sids(ms, gid, msg) ==
    LET items == sorted_by_idx(first_pos(ms, gid, msg))
    IN  [i \in 1..Len(items) |-> items[i].sid]

RECURSIVE mention_chain(_)
mention_chain(sids) ==
    IF sids = <<>> THEN <<>>
    ELSE <<At(Head(sids)), Plain(<<NBSP>>)>> \o mention_chain(Tail(sids))

\* chain[-1] = Comp.Plain("\u200b\n" + msg)
with_text(chain, msg) ==
    [chain EXCEPT ![Len(chain)] = Plain(<<ZWSP, NL>> \o msg)]

\* on_group_message after _load: the chain it yields, <<>> when it yields none.
lookup_chain(ms, gid, msg) ==
    IF gid = "" THEN <<>>
    ELSE IF has_trigger(msg)
         THEN LET chain == broadcast_chain(ms, gid)
              IN  IF chain # <<>> THEN with_text(chain, msg) ELSE <<>>
    ELSE LET sids == order_sids(ms, gid, msg)
         IN  IF sids = <<>> THEN <<>>
             ELSE with_text(mention_chain(sids), msg)

\* on_group_message before _load: the text it works on
hook_msg(event) == lower(_strip_at(event))

----------------------------------------------------------------------------
(* Inputs: the identifiers, nickname arguments and events the handlers are  *)
(* run on.                                                                  *)

cat == <<99, 97, 116>>       \* "cat"
Cat == <<67, 97, 116>>       \* "Cat"
dog == <<100, 111, 103>>     \* "dog"
cat_padded == <<32>> \o cat \o <<32>>   \* " cat "
blank      == <<32>>                    \* " "

Gids == {"g1", "g2"}

Event(segs, str, gid) == [message |-> segs, message_str |-> str, group_id |-> gid]

NoEvent == Event(<<>>, <<>>, "")

\* the member command: member 1 of g1 under three spellings, member 2 of g1
\* (behind a text segment and followed by a second mention), member 1 of g2;
\* then the rejected ones: a blank nickname, no mention, no group
MemberInputs ==
    ( {Event(<<At("1")>>, <<>>, "g1")} \X {cat, cat_padded, Cat} )
    \cup { <<Event(<<Plain(dog), At("2"), At("1")>>, <<>>, "g1"), dog>>,
           <<Event(<<At("1")>>, <<>>, "g2"), cat>>,
           <<Event(<<At("1")>>, <<>>, "g1"), blank>>,
           <<Event(<<Plain(dog)>>, <<>>, "g1"), cat>>,
           <<Event(<<At("1")>>, <<>>, ""), cat>> }

\* rm_nick and rm_member read no mention
RmNickInputs ==
    { <<Event(<<>>, <<>>, "g1"), cat_padded>>,
      <<Event(<<>>, <<>>, "g1"), blank>>,
      <<Event(<<>>, <<>>, ""), dog>> }

RmMemberInputs ==
    { <<Event(<<>>, <<>>, "g1"), cat_padded>>,
      <<Event(<<>>, <<>>, "g1"), dog>>,
      <<Event(<<>>, <<>>, "g1"), blank>>,
      <<Event(<<>>, <<>>, ""), dog>> }

\* "the dog chased the cat"
T_example ==
    <<116, 104, 101, 32>> \o dog \o <<32, 99, 104, 97, 115, 101, 100, 32, 116, 104, 101, 32>> \o cat

cat_dog == cat \o <<32>> \o dog              \* "cat dog"

\* U+0130, capital alpha, capital sigma
I_dot_alpha_sigma == <<304, 913, 931>>

MsgEvents ==
    { Event(<<Plain(T_example)>>, T_example, "g1"),
      Event(<<Plain(cat_dog)>>, cat_dog, "g1"),
      Event(<<Plain(cat_dog)>>, cat_dog, "g2"),
      Event(<<Plain(cat_dog)>>, cat_dog, ""),
      \* "Cat"
      Event(<<Plain(Cat)>>, Cat, "g1"),
      \* "cat" and the first trigger
      Event(<<Plain(cat \o triggers[1])>>, cat \o triggers[1], "g1"),
      \* the second trigger
      Event(<<Plain(triggers[2])>>, triggers[2], "g1"),
      Event(<<Plain(triggers[2])>>, triggers[2], "g2"),
      \* capitals outside ASCII and the first trigger
      Event(<<Plain(I_dot_alpha_sigma \o triggers[1])>>,
            I_dot_alpha_sigma \o triggers[1], "g1"),
      \* "hi"
      Event(<<Plain(<<104, 105>>)>>, <<104, 105>>, "g1"),
      \* "/cat"
      Event(<<Plain(<<SLASH>> \o cat)>>, <<SLASH>> \o cat, "g1"),
      \* a mention, then " /cat" and the first trigger
      Event(<<At("1"), Plain(<<32, SLASH>> \o cat \o triggers[1])>>, <<>>, "g1"),
      \* text split around mentions: @2 " Do" @1 "g "
      Event(<<At("2"), Plain(<<32, 68, 111>>), At("1"), Plain(<<103, 32>>)>>,
            <<>>, "g1"),
      \* no Plain segment: "[CQ:at,qq=1] Cat" in message_str
      Event(<<At("1")>>,
            CQ_AT_OPEN \o <<113, 113, 61, 49, RBRACKET, 32>> \o Cat, "g1") }

\* members.json when the plugin starts: absent, or a document written before
\* that holds a record without a sid, or a text cut short
InitFiles ==
    { Missing,
      Json(<<Rec(<<dog>>, "", "g1")>>),
      Corrupt(<<Rec(<<dog>>, "2", "g1")>>) }

----------------------------------------------------------------------------
(* The handlers as tasks of one event loop.  A task runs without           *)
(* interruption from one suspension to the next; it suspends in            *)
(* Lock.acquire() when the lock is held or has waiters, and in             *)
(* asyncio.to_thread() while the file is read or written.                  *)

\* what a handler received and produced: the list it had when _load returned,
\* the list its body left, its reply, the chain it yielded
Ran(op, event, arg, before, after, reply, chain) ==
    [op |-> op, event |-> event, arg |-> arg, before |-> before,
     after |-> after, reply |-> reply, chain |-> chain]

\* a task of the event loop
Task(pc, op, event, arg, before, after, reply, chain) ==
    [pc |-> pc, op |-> op, event |-> event, arg |-> arg, before |-> before,
     after |-> after, reply |-> reply, chain |-> chain]

TaskIdle == Task("idle", "none", NoEvent, <<>>, <<>>, <<>>, NoReply, <<>>)

NumTasks == 2   \* handlers the host runs at the same time

\* task 0 is init_task, the others run the handlers
Handlers == 1..NumTasks

\* what one task changes while it runs: self._members, the lock, itself
Seg(ms, lk, ws, me) == [members |-> ms, locked |-> lk, waiters |-> ws, me |-> me]

\* a variant of release() that leaves the lock held
Release_keeps_lock(s) == s

\* Lock.release(): the first waiter, if any, is woken and takes the lock when
\* it resumes; until then the lock is free but not for a newcomer.
Release(s) == [s EXCEPT !.locked = FALSE]

\* _save up to its suspension: the lock is taken and the write starts in a
\* thread, or the task waits for the lock
EnterSave(h, s) ==
    IF ~s.locked /\ s.waiters = <<>>
    THEN [s EXCEPT !.locked = TRUE, !.me.pc = "save_write"]
    ELSE [s EXCEPT !.waiters = Append(@, h), !.me.pc = "save_wait"]

\* the handler from the return of _load to its next suspension or its end
AfterLoad(h, s) ==
    LET me == s.me
    IN  IF me.op = "load" THEN [s EXCEPT !.me.pc = "done"]
        ELSE IF me.op = "message"
        THEN [s EXCEPT !.me.pc = "done",
                       !.me.before = s.members,
                       !.me.after = s.members,
                       !.me.chain = lookup_chain(s.members, me.event.group_id,
                                                 hook_msg(me.event))]
        ELSE LET r == IF me.op = "member" THEN cmd_member(s.members, me.event, me.arg)
                      ELSE IF me.op = "rm_nick"
                           THEN cmd_rm_nick(s.members, me.event, me.arg)
                      ELSE cmd_rm_member(s.members, me.event, me.arg)
                 s2 == [s EXCEPT !.members = r.members,
                                 !.me.before = s.members,
                                 !.me.after = r.members,
                                 !.me.reply = r.reply]
             IN  IF r.save THEN EnterSave(h, s2) ELSE [s2 EXCEPT !.me.pc = "done"]

\* _load with the lock taken: without a file the list is emptied and the lock
\* released at once, otherwise the read starts in a thread
LoadLocked(h, s) ==
    IF file.kind = "missing"
    THEN AfterLoad(h, Release([s EXCEPT !.members = <<>>]))
    ELSE [s EXCEPT !.me.pc = "load_read"]

\* a variant of _load that does not wait for the lock
EnterLoad_ignores_lock(h, s) == LoadLocked(h, [s EXCEPT !.locked = TRUE])

\* _load up to its suspension
EnterLoad(h, s) ==
    IF ~s.locked /\ s.waiters = <<>>
    THEN LoadLocked(h, [s EXCEPT !.locked = TRUE])
    ELSE [s EXCEPT !.waiters = Append(@, h), !.me.pc = "load_wait"]

\* the handler from its first line: on_group_message returns before _load on
\* a text that starts with "/"
EnterHandler(h, s) ==
    IF s.me.op = "message" /\ startswith(hook_msg(s.me.event), <<SLASH>>)
    THEN [s EXCEPT !.me.pc = "done",
                   !.me.before = s.members,
                   !.me.after = s.members]
    ELSE EnterLoad(h, s)

\* the task h has run up to s
Ran_to(h, s) ==
    \E to \in {s} :
        /\ members' = to.members
        /\ locked' = to.locked
        /\ waiters' = to.waiters
        /\ task' = [task EXCEPT ![h] = to.me]
        /\ UNCHANGED <<file, tmp>>

Here(h) == Seg(members, locked, waiters, task[h])

\* __init__: the empty list, the free lock, and init_task created but not yet
\* run; members.json is what an earlier run of the plugin left
Started(files) ==
    /\ members = <<>>
    /\ file \in files
    /\ tmp = Missing
    /\ locked = FALSE
    /\ waiters = <<>>
    /\ task = [h \in 0..NumTasks |->
                  IF h = 0
                  THEN Task("new", "load", NoEvent, <<>>, <<>>, <<>>, NoReply, <<>>)
                  ELSE TaskIdle]

Init == Started(InitFiles)

\* init_task = asyncio.create_task(self._load()) gets its first turn
StartupLoad ==
    /\ task[0].pc = "new"
    /\ Ran_to(0, EnterLoad(0, Here(0)))

\* The loop has run since __init__: init_task, created first, has had its
\* first turn before any task that suspended later is resumed.
LoopHasRun == task[0].pc # "new"

\* the host dispatches an event to a handler, which runs to its first
\* suspension; the host may do so in the coroutine that constructed the
\* plugin, before init_task has had its first turn
Dispatch(h, job) ==
    /\ task[h].pc = "idle"
    /\ Ran_to(h, EnterHandler(h, [Here(h) EXCEPT
                    !.me = Task("run", job[1], job[2], job[3], <<>>, <<>>,
                                NoReply, <<>>)]))

\* a variant of acquire() in which the first waiter resumes whether or not
\* the lock was released
Woken_while_locked(h) == waiters # <<>> /\ Head(waiters) = h

\* a waiter woken by release() resumes in acquire(): it has the lock
Woken(h) ==
    /\ ~locked
    /\ waiters # <<>>
    /\ Head(waiters) = h

LoadResumes(h) ==
    /\ task[h].pc = "load_wait"
    /\ LoopHasRun
    /\ Woken(h)
    /\ Ran_to(h, LoadLocked(h, [Here(h) EXCEPT !.locked = TRUE,
                                               !.waiters = Tail(@)]))

\* the read of the file has returned: self._members = data, the lock released
ReadReturns(h) ==
    /\ task[h].pc = "load_read"
    /\ LoopHasRun
    /\ Ran_to(h, AfterLoad(h, Release([Here(h) EXCEPT
                                          !.members = LoadResult(file)])))

SaveResumes(h) ==
    /\ task[h].pc = "save_wait"
    /\ LoopHasRun
    /\ Woken(h)
    /\ Ran_to(h, [Here(h) EXCEPT !.locked = TRUE, !.waiters = Tail(@),
                                 !.me.pc = "save_write"])

\* the two files write() works on
Files(live, t) == [live |-> live, tmp |-> t]

\* how tmp.write_text ends: the text is written in full; open() is refused
\* and nothing is touched; or the file is opened (and so emptied) and the
\* write is cut short
WriteOutcomes == {"written", "refused", "cut"}

\* a variant of write_text that writes members.json itself
write_text_in_place(fs, ms, how) ==
    IF how = "refused" THEN fs
    ELSE [fs EXCEPT !.live = IF how = "written" THEN Json(ms) ELSE Corrupt(ms)]

\* write(), first statement: tmp.write_text(json.dumps(self._members)); when
\* it raises at open() the temp file stays as it was (absent, or what an
\* earlier failed save left), when it raises later what was written of the
\* text stays in the temp file
write_text(fs, ms, how) ==
    IF how = "refused" THEN fs
    ELSE [fs EXCEPT !.tmp = IF how = "written" THEN Json(ms) ELSE Corrupt(ms)]

\* write(), second statement: tmp.replace(members_path), one rename; when it
\* raises, both files stay
replace(fs, ok) ==
    IF ok THEN [fs EXCEPT !.live = fs.tmp, !.tmp = Missing] ELSE fs

\* write() in its thread, tmp.write_text(...): it returns or raises
WriteRuns(h) ==
    /\ task[h].pc = "save_write"
    /\ \E how \in WriteOutcomes :
          LET fs == write_text(Files(file, tmp), members, how)
          IN  /\ file' = fs.live
              /\ tmp' = fs.tmp
              /\ task' = [task EXCEPT ![h].pc =
                              IF how = "written" THEN "save_replace"
                              ELSE "save_failed"]
    /\ UNCHANGED <<members, locked, waiters>>

\* write() in its thread, tmp.replace(...): it returns or raises
ReplaceRuns(h) ==
    /\ task[h].pc = "save_replace"
    /\ \E ok \in BOOLEAN :
          LET fs == replace(Files(file, tmp), ok)
          IN  /\ file' = fs.live
              /\ tmp' = fs.tmp
              /\ task' = [task EXCEPT ![h].pc =
                              IF ok THEN "save_done" ELSE "save_failed"]
    /\ UNCHANGED <<members, locked, waiters>>

\* the write has returned: the lock is released and the reply is yielded
WriteReturns(h) ==
    /\ task[h].pc = "save_done"
    /\ LoopHasRun
    /\ Ran_to(h, [Release(Here(h)) EXCEPT !.me.pc = "done"])

\* the write has raised: the lock is released by `async with`, the exception
\* leaves _save and the handler, which yields no reply
WriteRaises(h) ==
    /\ task[h].pc = "save_failed"
    /\ LoopHasRun
    /\ Ran_to(h, [Release(Here(h)) EXCEPT !.me.pc = "done", !.me.reply = Raised])

\* the host has taken what the handler yielded (yield event.plain_result(...),
\* yield event.chain_result(chain)) or its plain return
Returns(h) ==
    /\ task[h].pc = "done"
    /\ h # 0
    /\ task' = [task EXCEPT ![h] = TaskIdle]
    /\ UNCHANGED <<members, file, tmp, locked, waiters>>

\* the steps of the tasks once started
Steps ==
    \/ StartupLoad
    \/ \E h \in 0..NumTasks : LoadResumes(h)
    \/ \E h \in 0..NumTasks : ReadReturns(h)
    \/ \E h \in Handlers : SaveResumes(h)
    \/ \E h \in Handlers : WriteRuns(h)
    \/ \E h \in Handlers : ReplaceRuns(h)
    \/ \E h \in Handlers : WriteReturns(h)
    \/ \E h \in Handlers : WriteRaises(h)
    \/ \E h \in Handlers : Returns(h)

----------------------------------------------------------------------------
(* One handler at a time: the host takes what a handler yields before it   *)
(* dispatches the next event, on every input; init_task runs beside it.    *)

CmdMember(event, arg) == Dispatch(1, <<"member", event, arg>>)

CmdRmNick(event, arg) == Dispatch(1, <<"rm_nick", event, arg>>)

CmdRmMember(event, arg) == Dispatch(1, <<"rm_member", event, arg>>)

OnGroupMessage(event) == Dispatch(1, <<"message", event, <<>> >>)

Next ==
    \/ \E in \in MemberInputs : CmdMember(in[1], in[2])
    \/ \E in \in RmNickInputs : CmdRmNick(in[1], in[2])
    \/ \E in \in RmMemberInputs : CmdRmMember(in[1], in[2])
    \/ \E event \in MsgEvents : OnGroupMessage(event)
    \/ Steps

Spec == Init /\ [][Next]_vars

Idle == Ran("idle", NoEvent, <<>>, <<>>, <<>>, NoReply, <<>>)

\* the handler that has come to its end, with what it received and produced,
\* until the host takes it
last ==
    IF task[1].pc = "done"
    THEN Ran(task[1].op, task[1].event, task[1].arg, task[1].before,
             task[1].after, task[1].reply, task[1].chain)
    ELSE Idle

----------------------------------------------------------------------------
(* Handlers side by side: the host dispatches an event while another       *)
(* handler is suspended.                                                   *)

\* the handlers the host runs at the same time
Jobs ==
    { <<"member", Event(<<At("1")>>, <<>>, "g1"), cat>>,
      <<"member", Event(<<At("2")>>, <<>>, "g1"), cat>>,
      <<"rm_nick", Event(<<>>, <<>>, "g1"), cat>>,
      <<"rm_member", Event(<<>>, <<>>, "g1"), cat>>,
      <<"message", Event(<<Plain(cat_dog)>>, cat_dog, "g1"), <<>> >> }

\* members.json when the plugin starts
TasksFiles == {Missing, Corrupt(<<Rec(<<dog>>, "2", "g1")>>)}

TasksInit == Started(TasksFiles)

TasksNext ==
    \/ \E h \in Handlers, job \in Jobs : Dispatch(h, job)
    \/ Steps

TasksSpec == TasksInit /\ [][TasksNext]_vars

\* The loop runs every task that is ready and every thread started by
\* to_thread comes back; the host dispatches events as it pleases.
\* the pcs at which a task stands inside `async with self._lock`
SavePcs == {"save_write", "save_replace", "save_done", "save_failed"}
LockPcs == SavePcs \cup {"load_read"}
WaitPcs == {"load_wait", "save_wait"}

\* A task has at most one of these steps to take, by its pc.
TaskStep(h) ==
    \/ h = 0 /\ StartupLoad
    \/ LoadResumes(h)
    \/ ReadReturns(h)
    \/ h \in Handlers /\ SaveResumes(h)
    \/ h \in Handlers /\ WriteRuns(h)
    \/ h \in Handlers /\ ReplaceRuns(h)
    \/ h \in Handlers /\ WriteReturns(h)
    \/ h \in Handlers /\ WriteRaises(h)
    \/ h \in Handlers /\ Returns(h)

\* ENABLED <<TaskStep(h)>>_vars, written out: the task is ready to run (it
\* is new, its thread is at work or has come back, its result is to be
\* taken) or it is the waiter that release() has woken
Ready(h) ==
    \/ h = 0 /\ task[h].pc = "new"
    \/ task[h].pc \in WaitPcs /\ Woken(h) /\ LoopHasRun
    \/ task[h].pc \in {"save_write", "save_replace"}
    \/ task[h].pc \in {"load_read", "save_done", "save_failed"} /\ LoopHasRun
    \/ h \in Handlers /\ task[h].pc = "done"

\* WF_vars(TaskStep(h)) for every task, with ENABLED written out as Ready(h)
TasksFairness ==
    \A h \in 0..NumTasks : []<>~Ready(h) \/ []<><<TaskStep(h)>>_vars

\* the handlers started for the termination check: a command that saves, a
\* command that may find nothing, a message
FairJobs ==
    { <<"member", Event(<<At("1")>>, <<>>, "g1"), cat>>,
      <<"rm_member", Event(<<>>, <<>>, "g1"), cat>>,
      <<"message", Event(<<Plain(cat_dog)>>, cat_dog, "g1"), <<>> >> }

TasksFairNext ==
    \/ \E h \in Handlers, job \in FairJobs : Dispatch(h, job)
    \/ Steps

TasksFairSpec == TasksInit /\ [][TasksFairNext]_vars /\ TasksFairness

----------------------------------------------------------------------------
(* Vocabulary of the properties.  Those of the lookup and of the commands   *)
(* speak of `last`, the handler of Spec that has come to its end.          *)

\* the member identifiers a chain mentions, in order
MentionedSids(chain) ==
    LET ats == SelectSeq(chain, LAMBDA seg : seg.type = "At")
    IN  [i \in 1..Len(ats) |-> ats[i].qq]

Occurrences(seq, x) == Cardinality({i \in 1..Len(seq) : seq[i] = x})

\* the last handler was on_group_message and it reached the lookup
Looked ==
    /\ last.op = "message"
    /\ ~startswith(hook_msg(last.event), <<SLASH>>)
    /\ last.event.group_id # ""

\* the text of the incoming message: its Plain text, mentions left out, trimmed
ReceivedText == _strip_at(last.event)

\* the records of the group the last event came from, as the handler loaded them
GroupRecords ==
    {i \in 1..Len(last.before) :
        /\ last.before[i].group_id = last.event.group_id
        /\ last.before[i].sid # ""}

\* the non-empty nicknames of record i that occur in text when letter case is
\* ignored on both sides
FoldedHits(i, text) ==
    {k \in 1..Len(last.before[i].nickname) :
        /\ _norm_str(last.before[i].nickname[k]) # <<>>
        /\ contains(lower(text), lower(_norm_str(last.before[i].nickname[k])))}

\* the smallest index at which a nickname of record i occurs, case ignored
FoldedIndex(i, text) ==
    SetMin({find(lower(text), lower(_norm_str(last.before[i].nickname[k]))) :
                k \in FoldedHits(i, text)})

\* the nicknames of record i that occur, as stored, in the text the hook searches
StoredHits(i, msg) ==
    {k \in 1..Len(last.before[i].nickname) :
        /\ _norm_str(last.before[i].nickname[k]) # <<>>
        /\ contains(msg, _norm_str(last.before[i].nickname[k]))}

StoredIndex(i, msg) ==
    SetMin({find(msg, _norm_str(last.before[i].nickname[k])) : k \in StoredHits(i, msg)})

\* the position of the record of sid among the records of the group
StorePos(sid) == SetMin({i \in GroupRecords : last.before[i].sid = sid})

----------------------------------------------------------------------------
(* C1: for a group message without a broadcast trigger, every sid of the   *)
(* group with a non-empty nickname occurring in the message is mentioned   *)
(* exactly once, and the mentions are in ascending order of the smallest   *)
(* index at which a nickname of the sid occurs; equal indexes keep the     *)
(* order of the store.  Occurrence is taken as the specification takes it, *)
(* on the case-folded nickname and the case-folded message.                *)
C1_MentionsInOrderOfOccurrence ==
    (Looked /\ ~has_trigger(lower(ReceivedText))) =>
        LET sids == MentionedSids(last.chain)
        IN  /\ \A i \in GroupRecords :
                   FoldedHits(i, ReceivedText) # {} =>
                       Occurrences(sids, last.before[i].sid) = 1
            /\ \A j, k \in 1..Len(sids) :
                   j < k =>
                       LET a == StorePos(sids[j])
                           b == StorePos(sids[k])
                       IN  /\ FoldedHits(a, ReceivedText) # {}
                           /\ FoldedHits(b, ReceivedText) # {}
                           /\ \/ FoldedIndex(a, ReceivedText) < FoldedIndex(b, ReceivedText)
                              \/ /\ FoldedIndex(a, ReceivedText) = FoldedIndex(b, ReceivedText)
                                 /\ a < b

\* What the lookup does guarantee (C1 with occurrence taken on the stored
\* nickname and the text the hook searches, lower(ReceivedText)): exactly the
\* sids with such an occurrence are mentioned, once each, in that order.
LookupOrderOnSearchedText ==
    (Looked /\ ~has_trigger(hook_msg(last.event))) =>
        LET sids == MentionedSids(last.chain)
            msg  == hook_msg(last.event)
        IN  /\ \A i \in GroupRecords :
                   Occurrences(sids, last.before[i].sid)
                       = IF StoredHits(i, msg) # {} THEN 1 ELSE 0
            /\ \A j \in 1..Len(sids) : \E i \in GroupRecords : last.before[i].sid = sids[j]
            /\ \A j, k \in 1..Len(sids) :
                   j < k =>
                       LET a == StorePos(sids[j])
                           b == StorePos(sids[k])
                       IN  \/ StoredIndex(a, msg) < StoredIndex(b, msg)
                           \/ StoredIndex(a, msg) = StoredIndex(b, msg) /\ a < b

\* two members mentioned in the order of occurrence, against the store order
LookupOrderWitness ==
    /\ Looked
    /\ ~has_trigger(hook_msg(last.event))
    /\ Len(MentionedSids(last.chain)) = 2
    /\ StorePos(MentionedSids(last.chain)[1]) > StorePos(MentionedSids(last.chain)[2])

(* C2: the lookup compares the case-folded nickname with the case-folded   *)
(* message: whenever the message contains a stored nickname of a record of *)
(* the group up to letter case, the sid of the record is mentioned.        *)
C2_MatchIgnoresCase ==
    (Looked /\ ~has_trigger(lower(ReceivedText))) =>
        \A i \in GroupRecords :
            (\E k \in 1..Len(last.before[i].nickname) :
                LET nick == _norm_str(last.before[i].nickname[k])
                IN  nick # <<>> /\ contains(lower(ReceivedText), lower(nick)))
            => \E j \in 1..Len(last.chain) : last.chain[j] = At(last.before[i].sid)

\* a message with a trigger phrase in it
Triggered == \E t \in 1..Len(triggers) : contains(ReceivedText, triggers[t])

\* the sids of the group's records that have one, in the order of the store
GroupSids ==
    LET recs == SelectSeq(last.before,
                    LAMBDA r : r.group_id = last.event.group_id /\ r.sid # "")
    IN  [i \in 1..Len(recs) |-> recs[i].sid]

(* C3: a message with a broadcast trigger mentions exactly the records of  *)
(* the group that have a sid, one mention per record in store order,       *)
(* whatever nicknames the message or the records hold, and emits nothing   *)
(* when the group has no such record.                                      *)
C3_BroadcastMentionsGroup ==
    (Looked /\ Triggered) =>
        /\ MentionedSids(last.chain) = GroupSids
        /\ (GroupSids = <<>>) = (last.chain = <<>>)

\* a broadcast that mentions two members none of whose nicknames is in the text
BroadcastWitness ==
    /\ Looked
    /\ Triggered
    /\ Len(MentionedSids(last.chain)) = 2
    /\ \A i \in GroupRecords :
           /\ last.before[i].nickname # <<>>
           /\ StoredHits(i, hook_msg(last.event)) = {}

(* C4: a message of group G2 never mentions a sid taken from a record of   *)
(* another group: every mention comes from a record of the message's group,*)
(* and without a trigger from one whose own nickname is in the message.    *)
C4_MentionsStayInGroup ==
    last.op = "message" =>
        \A j \in 1..Len(last.chain) :
            last.chain[j].type = "At" =>
                \E i \in GroupRecords :
                    /\ last.before[i].sid = last.chain[j].qq
                    /\ Triggered \/ StoredHits(i, hook_msg(last.event)) # {}

\* a message in g2 that mentions a member of g2 while a record of g1 holds a
\* nickname that is in the message and is not mentioned
IsolationWitness ==
    /\ Looked
    /\ last.event.group_id = "g2"
    /\ last.chain # <<>>
    /\ \E i \in 1..Len(last.before) :
           /\ last.before[i].group_id = "g1"
           /\ last.before[i].sid # ""
           /\ StoredHits(i, hook_msg(last.event)) # {}
           /\ Occurrences(MentionedSids(last.chain), last.before[i].sid) = 0

(* C5: whenever the hook emits a message, its last segment is the text     *)
(* U+200B, newline, and the original text of the incoming message,         *)
(* unchanged, letter case included.                                        *)
C5_OriginalTextPreserved ==
    (last.op = "message" /\ last.chain # <<>>) =>
        last.chain[Len(last.chain)] = Plain(<<ZWSP, NL>> \o ReceivedText)

\* the sids the rewriter is given: all of the group, or the matched ones
MatchedSids ==
    IF Triggered THEN GroupSids
    ELSE order_sids(last.before, last.event.group_id, hook_msg(last.event))

\* 2n segments for n sids: mention i at 2i-1, one NBSP at 2i for i < n
MentionLayout(chain, sids) ==
    /\ Len(chain) = 2 * Len(sids)
    /\ \A i \in 1..Len(sids) : chain[2 * i - 1] = At(sids[i])
    /\ \A i \in 1..(Len(sids) - 1) : chain[2 * i] = Plain(<<NBSP>>)

(* C6: for n >= 1 matched sids the chain has exactly 2n segments: mention  *)
(* i at 2i-1, one NBSP at 2i for i < n, and at 2n the text U+200B, newline *)
(* and the message text; no chain is emitted for an empty list.            *)
C6_ChainOfMentionsAndText ==
    Looked =>
        /\ MentionLayout(last.chain, MatchedSids)
        /\ MatchedSids # <<>> =>
               last.chain[2 * Len(MatchedSids)] = Plain(<<ZWSP, NL>> \o ReceivedText)

\* What the rewriter does guarantee: the layout of C6 with, as the message
\* text, the text the hook searches (lower(ReceivedText)).
ChainLayoutOnSearchedText ==
    Looked =>
        /\ MentionLayout(last.chain, MatchedSids)
        /\ MatchedSids # <<>> =>
               last.chain[2 * Len(MatchedSids)]
                   = Plain(<<ZWSP, NL>> \o hook_msg(last.event))

\* a chain of two mentions: At, NBSP, At, text
ChainLayoutWitness ==
    /\ Looked
    /\ Len(last.chain) = 4
    /\ last.chain[2] = Plain(<<NBSP>>)

----------------------------------------------------------------------------
(* The commands. *)

\* the group, member and nickname the last command was about
CmdGid  == last.event.group_id
CmdSid  == _first_at_sid(last.event.message)
CmdNick == _norm_str(last.arg)

NoDupNicks(ms) ==
    \A i \in 1..Len(ms) : \A k, l \in 1..Len(ms[i].nickname) :
        ms[i].nickname[k] = ms[i].nickname[l] => k = l

\* the records of (sid, gid) in ms
RecordsOf(ms, sid, gid) ==
    {i \in 1..Len(ms) : ms[i].sid = sid /\ ms[i].group_id = gid}

(* C7: upsert is idempotent.  A member command that ends with its success *)
(* reply has left a list in which the record of (sid, group) holds the     *)
(* trimmed nickname exactly once; upserting a nickname the record holds    *)
(* leaves the list as the command loaded it, upserting a new one appends   *)
(* it at the end (or creates the record); so no nickname list ever holds a *)
(* value twice.                                                            *)
C7_UpsertIdempotent ==
    /\ NoDupNicks(members)
    /\ NoDupNicks(last.after)
    /\ (last.op = "member" /\ last.reply.msg = "recorded") =>
           LET was == RecordsOf(last.before, CmdSid, CmdGid)
           IN  /\ \E i \in RecordsOf(last.after, CmdSid, CmdGid) :
                      Occurrences(last.after[i].nickname, CmdNick) = 1
               /\ was = {} =>
                      last.after = Append(last.before, Rec(<<CmdNick>>, CmdSid, CmdGid))
               /\ \A j \in was :
                      last.after =
                          IF Occurrences(last.before[j].nickname, CmdNick) > 0
                          THEN last.before
                          ELSE [last.before EXCEPT ![j].nickname = Append(@, CmdNick)]

\* the nickname, padded this time, upserted again into a record that already
\* holds it as the second of two; the save has replaced members.json
UpsertWitness ==
    /\ last.op = "member"
    /\ last.reply.msg = "recorded"
    /\ last.arg # CmdNick
    /\ \E j \in RecordsOf(last.before, CmdSid, CmdGid) :
           /\ Len(last.before[j].nickname) = 2
           /\ last.before[j].nickname[2] = CmdNick
    /\ last.after = last.before
    /\ members = last.after
    /\ file = Json(last.after)

NoDupKeys(ms) ==
    \A i, j \in 1..Len(ms) :
        (ms[i].sid = ms[j].sid /\ ms[i].group_id = ms[j].group_id) => i = j

(* C8: the in-memory list and the backing file hold at most one record per *)
(* (sid, group_id).                                                        *)
C8_OneRecordPerMember ==
    /\ NoDupKeys(members)
    /\ NoDupKeys(file.doc)

\* two member commands for the same member of the same group in flight at the
\* same time: one has replied, the other is in _save, and two records exist
OneRecordWitness ==
    \E h1, h2 \in Handlers :
        /\ h1 # h2
        /\ task[h1].op = "member" /\ task[h2].op = "member"
        /\ task[h1].event = task[h2].event
        /\ task[h1].pc = "done"
        /\ task[h1].reply.msg = "recorded"
        /\ task[h2].pc \in {"save_wait", "save_write", "save_done"}
        /\ Len(members) = 2
        /\ file.kind = "json"

(* C9: rm_nick deletes no record.  The (sid, group_id) of the records and  *)
(* their order are the same in the list the command loaded and in the list *)
(* it left; every record of the group loses the nickname and keeps its     *)
(* other nicknames in order (possibly none); the records of other groups   *)
(* are unchanged; the count reported is the number of records whose list   *)
(* shrank.                                                                 *)
C9_RmNickKeepsRecords ==
    (last.op = "rm_nick" /\ CmdGid # "") =>
        /\ Len(last.after) = Len(last.before)
        /\ \A i \in 1..Len(last.after) :
               /\ last.after[i].sid = last.before[i].sid
               /\ last.after[i].group_id = last.before[i].group_id
               /\ last.after[i].nickname =
                      IF last.before[i].group_id = CmdGid
                      THEN SelectSeq(last.before[i].nickname, LAMBDA x : x # CmdNick)
                      ELSE last.before[i].nickname
        /\ LET shrunk == {i \in 1..Len(last.after) :
                             Len(last.after[i].nickname) < Len(last.before[i].nickname)}
           IN  last.reply # Raised =>
                   last.reply = IF shrunk = {} THEN R_NOT_FOUND
                                ELSE R_NICK_REMOVED(CmdNick, Cardinality(shrunk))

\* rm_nick left a record without nicknames, and a record of the other group
\* still holds the nickname; the save has replaced members.json
RmNickWitness ==
    /\ last.op = "rm_nick"
    /\ last.reply.msg = "nick_removed"
    /\ \E i \in 1..Len(last.after) :
           last.after[i].nickname = <<>> /\ last.before[i].nickname # <<>>
    /\ \E i \in 1..Len(last.after) :
           /\ last.after[i].group_id # CmdGid
           /\ Occurrences(last.after[i].nickname, CmdNick) = 1
    /\ file = Json(last.after)

(* C10: rm_member deletes exactly the records of the group whose list      *)
(* holds the nickname, each as a whole; every other record, those of other *)
(* groups with the same nickname included, is kept unchanged and in the    *)
(* same order; the count reported is the number of records deleted.        *)
C10_RmMemberDeletesRecords ==
    (last.op = "rm_member" /\ CmdGid # "") =>
        LET kept == SelectSeq(last.before,
                        LAMBDA r : ~(r.group_id = CmdGid
                                     /\ Occurrences(r.nickname, CmdNick) > 0))
            gone == Len(last.before) - Len(kept)
        IN  /\ last.after = kept
            /\ last.reply # Raised =>
                   last.reply = IF gone = 0 THEN R_NOT_FOUND
                                ELSE R_MEMBER_REMOVED(gone)

\* rm_member deleted a record, and a record of the other group with the same
\* nickname is still there; the save has replaced members.json
RmMemberWitness ==
    /\ last.op = "rm_member"
    /\ last.reply.msg = "member_removed"
    /\ \E i \in 1..Len(last.after) :
           /\ last.after[i].group_id # CmdGid
           /\ Occurrences(last.after[i].nickname, CmdNick) = 1
    /\ file = Json(last.after)

\* the handler of Spec comes to its end in this step
Ends == task[1].pc # "done" /\ task'[1].pc = "done"

----------------------------------------------------------------------------
(* Command-prefixed messages. *)

\* the text of the event, mentions left out and trimmed, begins with "/"
CommandText(event) ==
    LET text == _strip_at(event)
    IN  text # <<>> /\ text[1] = SLASH

\* C11: on a group message whose mention-stripped, trimmed text begins with
\* "/", on_group_message emits nothing, whatever nickname or trigger the text
\* holds, and leaves self._members and members.json as they were.
C11_CommandTextIsIgnored ==
    [][ (Ends /\ last'.op = "message" /\ CommandText(last'.event))
        => /\ task[1].pc = "idle"
           /\ last'.chain = <<>>
           /\ last'.reply = NoReply
           /\ members' = members
           /\ file' = file ]_vars

\* a "/" message that holds a nickname of its group or a trigger answered by
\* a record of its group, and nothing was emitted
CommandTextWitness ==
    /\ last.op = "message"
    /\ CommandText(last.event)
    /\ lookup_chain(members, last.event.group_id,
                    SubSeq(hook_msg(last.event), 2, Len(hook_msg(last.event)))) # <<>>
    /\ last.chain = <<>>

----------------------------------------------------------------------------
(* Messages that match nothing. *)

\* the records of the group of the last event, with or without a sid
RecordsOfGroup ==
    {i \in 1..Len(last.before) : last.before[i].group_id = last.event.group_id}

\* C12: a group message that holds no broadcast trigger and no non-empty
\* nickname of a record of its group (a nickname occurs when it does so up to
\* letter case, as the matching is specified) emits nothing; whoever is
\* mentioned without a trigger has a record of the group with a nickname that
\* occurs, so a record with an empty nickname list is never mentioned.
C12_NoMatchNoMessage ==
    (last.op = "message" /\ ~Triggered) =>
        /\ (\A i \in RecordsOfGroup : FoldedHits(i, ReceivedText) = {})
               => last.chain = <<>>
        /\ \A j \in 1..Len(last.chain) :
               last.chain[j].type = "At" =>
                   \E i \in RecordsOfGroup :
                       /\ last.before[i].sid = last.chain[j].qq
                       /\ last.before[i].nickname # <<>>
                       /\ FoldedHits(i, ReceivedText) # {}

\* the group has a record that lost its last nickname and a record with a
\* nickname of another text; the message names neither and nothing is emitted
NoMatchWitness ==
    /\ Looked
    /\ ~Triggered
    /\ ReceivedText # <<>>
    /\ \E i \in GroupRecords : last.before[i].nickname = <<>>
    /\ \E i \in GroupRecords : last.before[i].nickname # <<>>
    /\ last.chain = <<>>

----------------------------------------------------------------------------
(* The target of the member command. *)

\* the number of mention segments of a message
NumMentions(event) ==
    Cardinality({j \in 1..Len(event.message) : event.message[j].type = "At"})

\* C13: the member command requires exactly one mention in the triggering
\* message: with none, or with more than one, it adds no nickname to any
\* record (the list of records stays as loaded and nothing is saved as
\* recorded); with one it upserts for the mentioned member only.
C13_MemberNeedsOneMention ==
    (last.op = "member") =>
        /\ NumMentions(last.event) # 1
               => /\ last.after = last.before
                  /\ last.reply.msg \notin {"recorded", "raised"}
        /\ (NumMentions(last.event) = 1 /\ last.reply.msg = "recorded")
               => \A i \in 1..Len(last.after) :
                      (i > Len(last.before) \/ last.after[i] # last.before[i])
                          => last.after[i].sid = _first_at_sid(last.event.message)

\* What the command does guarantee: without a mention it replies with the
\* error and stores nothing, and with one or more it upserts for the member
\* of the first mention and for no other.
MemberUsesFirstMention ==
    (last.op = "member") =>
        /\ NumMentions(last.event) = 0
               => /\ last.after = last.before
                  /\ last.reply.msg \notin {"recorded", "raised"}
                  /\ (last.event.group_id # "" => last.reply = R_NEED_AT)
        /\ last.reply.msg = "recorded"
               => \A i \in 1..Len(last.after) :
                      (i > Len(last.before) \/ last.after[i] # last.before[i])
                          => last.after[i].sid = _first_at_sid(last.event.message)

\* a member command with two mentions that recorded a nickname
TwoMentionsWitness ==
    /\ last.op = "member"
    /\ NumMentions(last.event) = 2
    /\ last.reply.msg = "recorded"
    /\ last.after # last.before
    /\ file = Json(last.after)

----------------------------------------------------------------------------
(* Commands that end with an error or with "not found". *)

ValidationErrors == {R_GROUP_ONLY, R_NEED_AT, R_BAD_NICK}

\* C14: a command that ends with a validation error (no group, no mention,
\* empty nickname) or with the not-found reply has saved nothing and changed
\* no record: it comes to its end from its _load without having entered
\* _save, members.json and the temp file are untouched, and the list it
\* leaves is the list it loaded, record by record; the not-found reply is
\* none of the validation errors.
C14_RejectedCommandChangesNothing ==
    [][ ( /\ Ends
          /\ last'.op \in {"member", "rm_nick", "rm_member"}
          /\ last'.reply \in ValidationErrors \cup {R_NOT_FOUND} )
        => /\ task[1].pc \in {"idle", "load_wait", "load_read"}
           /\ file' = file
           /\ tmp' = tmp
           /\ last'.after = last'.before
           /\ members' = last'.before
           /\ members' = LoadResult(file')
           /\ R_NOT_FOUND \notin ValidationErrors ]_vars

\* rm_nick found nothing to remove in a group that has records
RejectedCommandWitness ==
    /\ last.op = "rm_nick"
    /\ last.reply = R_NOT_FOUND
    /\ \E i \in 1..Len(members) :
           members[i].group_id = last.event.group_id /\ members[i].nickname # <<>>
    /\ file = Json(members)

----------------------------------------------------------------------------
(* Loading a missing or unreadable file. *)

\* the task h comes out of _load in this step
LoadEnds(h) ==
    /\ task[h].pc \in {"new", "idle", "load_wait", "load_read"}
    /\ task'[h].pc \notin {"new", "idle", "load_wait", "load_read"}
    /\ ~(task'[h].op = "message" /\ CommandText(task'[h].event))

\* the first half of C15: with members.json missing, or present but not
\* parseable, _load leaves the empty list and the file as it is and releases
\* the lock, and its caller goes on: the start-up load and the message hook
\* end, rm_nick and rm_member find nothing, and a member command that passes
\* its checks goes into _save with the list that holds the new record only
LoadGivesEmptyList ==
    [][ \A h \in 0..NumTasks :
          (LoadEnds(h) /\ file.kind # "json") =>
              LET me == task'[h]
              IN  /\ file' = file
                  /\ locked' => me.pc = "save_write"
                  /\ me.op \in {"load", "message"} =>
                         members' = <<>> /\ me.pc = "done" /\ me.chain = <<>>
                  /\ me.op \in {"member", "rm_nick", "rm_member"} =>
                         me.before = <<>>
                  /\ (me.op \in {"rm_nick", "rm_member"} /\ me.event.group_id # "") =>
                         me.reply = R_NOT_FOUND /\ me.pc = "done" /\ members' = <<>>
                  /\ (me.op = "member" /\ me.reply.msg = "recorded") =>
                         /\ members' = <<Rec(<<me.reply.nickname>>, me.reply.sid,
                                             me.event.group_id)>>
                         /\ me.after = members'
                         /\ me.pc \in {"save_wait", "save_write"} ]_vars

\* C15: _load never fails.  With members.json missing, or present but not
\* parseable, the handler goes on with the empty list, so that a member
\* command that then replies with its success has saved a file that holds
\* the newly created record and nothing else.
C15_LoadNeverFails ==
    (last.op = "member" /\ last.reply.msg = "recorded" /\ last.before = <<>>) =>
        file = Json(<<Rec(<<last.reply.nickname>>, last.reply.sid,
                          last.event.group_id)>>)

\* a message handler has run on the unparseable file and looked up nothing
CorruptLoadWitness ==
    /\ file.kind = "corrupt"
    /\ Looked
    /\ contains(hook_msg(last.event), dog)
    /\ members = <<>>
    /\ last.chain = <<>>

----------------------------------------------------------------------------
(* The save and the lock, for handlers that run as tasks of one loop. *)

\* C16: the save is atomic with respect to members.json.  The file changes
\* only in the rename step of a save, and then to the temp file, which holds
\* the complete serialization of the collection in memory; a save that fails
\* in write_text or in the rename leaves members.json exactly as it was, so
\* no text cut short is ever written to it.
C16_SaveIsAtomic ==
    [][ /\ file' # file
           => \E h \in Handlers :
                  /\ task[h].pc = "save_replace"
                  /\ task'[h].pc = "save_done"
                  /\ tmp = Json(members)
                  /\ file' = tmp
        /\ \A h \in Handlers :
               (task'[h].pc = "save_failed" /\ task[h].pc # "save_failed")
                   => file' = file
        /\ file'.kind = "corrupt" => file' \in TasksFiles ]_vars

\* a save has failed after it wrote part of the text: the temp file is cut
\* short and members.json still holds the document of an earlier save
FailedSaveWitness ==
    \E h \in Handlers :
        /\ task[h].pc = "save_failed"
        /\ tmp.kind = "corrupt"
        /\ file.kind = "json"
        /\ file.doc # tmp.doc

\* at most one task is inside the lock, the lock is held exactly then, and
\* the tasks suspended in acquire() are those of the waiters queue
MutualExclusion ==
    /\ Cardinality({h \in 0..NumTasks : task[h].pc \in LockPcs}) <= 1
    /\ locked = (\E h \in 0..NumTasks : task[h].pc \in LockPcs)
    /\ {h \in 0..NumTasks : task[h].pc \in WaitPcs}
           = {waiters[i] : i \in 1..Len(waiters)}

\* a task suspended in acquire() leaves it only when the lock is free, and
\* a task enters the lock only when no other task is inside
EntersWhenFree ==
    \A h \in 0..NumTasks :
        (task[h].pc \notin LockPcs /\ task'[h].pc \in LockPcs)
            => /\ ~locked
               /\ \A g \in 0..NumTasks : task[g].pc \notin LockPcs
               /\ task[h].pc \in WaitPcs => Head(waiters) = h

\* C17: for the start-up load and any handlers running at the same time, at
\* most one file read of _load or file write of _save is in progress, a read
\* never overlaps a write nor a write a write, and a task that finds the lock
\* held stays suspended until the lock is released.
C17_FileOperationsExclude ==
    []MutualExclusion /\ [][EntersWhenFree]_vars

\* a read of the file is in progress while a handler waits to save what it
\* changed
ExclusionWitness ==
    \E h1, h2 \in 0..NumTasks :
        /\ task[h1].pc = "load_read"
        /\ task[h2].pc = "save_wait"
        /\ waiters = <<h2>>

\* the document in members.json holds what the command of task h changed
TookEffect(h, doc) ==
    LET me  == task[h]
        gid == me.event.group_id
    IN  IF me.op = "member"
        THEN \E i \in 1..Len(doc) :
                 /\ doc[i].sid = me.reply.sid
                 /\ doc[i].group_id = gid
                 /\ HasNick(doc[i], me.reply.nickname)
        ELSE \A i \in 1..Len(doc) :
                 ~(doc[i].group_id = gid /\ HasNick(doc[i], _norm_str(me.arg)))

\* C18: no update is lost.  When the save of a command has replaced
\* members.json (the handler is about to yield its success reply), the file
\* holds the change the command made: the nickname in the record of the
\* member for cmd_member, no record of the group with the nickname for
\* rm_nick and rm_member.
C18_NoLostUpdate ==
    \A h \in Handlers :
        task[h].pc = "save_done" => file.kind = "json" /\ TookEffect(h, file.doc)

\* C19: self._members is not changed while a save holds the lock, so that
\* the text a save writes is the serialization of the collection as it was
\* when the save took the lock.
C19_NoChangeDuringSave ==
    [][ /\ (\E h \in Handlers : task[h].pc \in SavePcs) => members' = members
        /\ \A h \in Handlers :
               task'[h].pc = "save_replace" => tmp' = Json(members') ]_vars

\* the temp file is written and waits for the rename while a member command
\* dispatched in the meantime waits for the lock
SaveSnapshotWitness ==
    \E h1, h2 \in Handlers :
        /\ task[h1].pc = "save_replace"
        /\ tmp = Json(members)
        /\ members # <<>>
        /\ task[h2].pc = "load_wait"
        /\ task[h2].op = "member"

----------------------------------------------------------------------------
(* Termination. *)

\* the task h has started and has not yet come to its end
Running(h) == task[h].pc \notin {"idle", "done"}

\* C20: under fair scheduling every handler that was started, and the
\* start-up load, comes to its end (a reply, a chain, nothing, or the
\* exception of a failed save), whatever other handlers are started
\* meanwhile, and a held lock becomes free again, also after a failed read
\* or write; so no state is reached in which a started handler can never
\* finish.
C20_HandlersTerminate ==
    /\ \A h \in 0..NumTasks : Running(h) ~> ~Running(h)
    /\ \A h \in Handlers : (task[h].pc # "idle") ~> (task[h].pc = "idle")
    /\ locked ~> ~locked

\* a save has failed and its handler ended with the exception: the lock is
\* free again and the handler that waited for it has been woken
RaisedWitness ==
    \E h1, h2 \in Handlers :
        /\ task[h1].pc = "done"
        /\ task[h1].reply = Raised
        /\ task[h2].pc \in WaitPcs
        /\ ~locked
        /\ Head(waiters) = h2

====
